---- MODULE Spec2Model ----
(***************************************************************************)
(* Bite-sized dungeon generator: the dungeon graph, its generator          *)
(* (biteSizedGenerator.ts), the connection roller (connectionRoll.ts) and  *)
(* the graph mutator (graphUtils.ts), driven by the handlers of App.tsx,   *)
(* and the editor's selection (App.tsx, DungeonGraph.tsx, RoomEditor.tsx). *)
(*                                                                         *)
(* Randomness is the only nondeterminism of the program.  Every call of    *)
(* Math.random is an input of the model: the generator takes a record of   *)
(* draws, and the actions choose that record from bounded sets.            *)
(***************************************************************************)
EXTENDS Integers, Sequences, FiniteSets, TLC

VARIABLES graphData, prev, last, removed, nOps,
          selectedNodeId, selectedEdge, addEdgeSource, addEdgeTarget

vars == <<graphData, prev, last, removed, nOps,
          selectedNodeId, selectedEdge, addEdgeSource, addEdgeTarget>>

\* The state of the add-connection form of RoomEditor.tsx.
form == <<addEdgeSource, addEdgeTarget>>

\* The selection of App.tsx.
selection == <<selectedNodeId, selectedEdge>>

---------------------------------------------------------------------------
(* Bounds of the model.                                                    *)

\* Number of handler calls after the initial render.
MaxOps == 2

\* Splices are taken only while the graph has at most this many rooms.
MaxRooms == 6

---------------------------------------------------------------------------
(* Values.                                                                 *)

\* An optional field that is absent (TypeScript's undefined).
Undefined == "<undefined>"

RoomTypes == {"monster_treasure", "monster", "treasure", "special", "empty"}

ConnectionTypes == {"open", "closed", "trapped", "hazardous", "secret"}

\* Outcomes of Math.random().toString(36).slice(2, 10), in increasing order
\* of UTF-16 code units.  A draw is an index into this table: equal draws
\* give equal strings.
RandomSlices ==
    << "a", "b", "c", "d", "e", "f", "g", "h", "i", "j", "k", "l", "m",
       "n", "o", "p", "q", "r", "s", "t", "u", "v", "w", "x", "y", "z" >>

generateId(r) == "room-" \o RandomSlices[r]

\* An identifier that generateId never returns.
Ghost == "ghost"

\* Identifiers are opaque strings: these four are as good as any.  Two of
\* them contain the character that joins a normalized pair.
PlainIds == <<"a", "a-b", "b-c", "c">>

\* All identifier strings of the model in the order of Array.prototype.sort
\* (UTF-16 code units):
\* "a" < "a-b" < "b-c" < "c" < "ghost" < "room-a" < "room-b" < ...
SortedIds ==
    (PlainIds \o <<Ghost>>) \o [r \in 1..Len(RandomSlices) |-> generateId(r)]

Rank(id) == CHOOSE k \in 1..Len(SortedIds) : SortedIds[k] = id

\* [a, b].sort().join('-')
norm(a, b) == IF Rank(b) < Rank(a) THEN b \o "-" \o a ELSE a \o "-" \o b

Range(s) == {s[i] : i \in 1..Len(s)}

---------------------------------------------------------------------------
(* connectionRoll.ts                                                       *)

\* The number of outcomes of Math.floor(Math.random() * 1000).
RollRange == 1000

\* The roller with the first threshold taken inclusive.
randomConnectionTypeInclusive(roll) ==
    IF roll <= 447 THEN "open"
    ELSE IF roll < 670 THEN "closed"
    ELSE IF roll < 780 THEN "trapped"
    ELSE IF roll < 890 THEN "hazardous"
    ELSE "secret"

\* roll = Math.floor(Math.random() * 1000)
randomConnectionType(roll) ==
    IF roll < 447 THEN "open"
    ELSE IF roll < 670 THEN "closed"
    ELSE IF roll < 780 THEN "trapped"
    ELSE IF roll < 890 THEN "hazardous"
    ELSE "secret"

---------------------------------------------------------------------------
(* biteSizedGenerator.ts                                                   *)

\* Edges between node indices 0..5.
LAYOUTS ==
    << << <<0, 1>>, <<1, 2>>, <<2, 0>>, <<0, 3>>, <<1, 4>>, <<2, 5>> >>,
       << <<0, 1>>, <<1, 2>>, <<2, 0>>, <<0, 3>>, <<0, 4>>, <<4, 5>> >>,
       << <<0, 1>>, <<1, 2>>, <<2, 0>>, <<0, 3>>, <<1, 4>>, <<1, 5>> >>,
       << <<0, 1>>, <<1, 2>>, <<2, 0>>, <<0, 3>>, <<0, 4>>, <<0, 5>> >>,
       << <<0, 1>>, <<1, 2>>, <<2, 3>>, <<3, 0>>, <<0, 4>>, <<2, 5>> >>,
       << <<0, 1>>, <<1, 2>>, <<2, 3>>, <<3, 0>>, <<0, 4>>, <<4, 5>> >>,
       << <<0, 1>>, <<1, 2>>, <<2, 3>>, <<3, 0>>, <<0, 4>>, <<0, 5>> >>,
       << <<0, 1>>, <<1, 2>>, <<2, 3>>, <<3, 4>>, <<4, 0>>, <<0, 5>> >>,
       << <<0, 1>>, <<1, 2>>, <<2, 3>>, <<0, 3>>, <<3, 4>>, <<4, 5>> >>,
       << <<0, 1>>, <<1, 2>>, <<2, 0>>, <<2, 3>>, <<0, 4>>, <<1, 5>> >> >>

ROOM_TYPES ==
    <<"monster_treasure", "monster", "treasure", "empty", "empty", "empty">>

\* Fisher-Yates: for i = length-1 down to 1, swap out[i] and out[j] with
\* j = Math.floor(Math.random() * (i + 1)).  js[i] is the draw j of step i
\* (0-based indices, as in the source).
RECURSIVE shuffleFrom(_, _, _)
shuffleFrom(out, js, i) ==
    IF i < 1 THEN out
    ELSE LET j == js[i]
             swapped == [out EXCEPT ![i + 1] = out[j + 1], ![j + 1] = out[i + 1]]
         IN  shuffleFrom(swapped, js, i - 1)

shuffle(arr, js) == shuffleFrom(arr, js, Len(arr) - 1)

\* shuffledTypes.indexOf(t), 0-based; -1 when absent.
indexOf(arr, t) ==
    IF \E k \in 1..Len(arr) : arr[k] = t
    THEN (CHOOSE k \in 1..Len(arr) :
              arr[k] = t /\ \A m \in 1..(k - 1) : arr[m] # t) - 1
    ELSE -1

\* The upgrade without the test of the position: every "empty" is upgraded.
upgradeEveryEmpty(shuffledTypes, oneSpecial) ==
    [k \in 1..Len(shuffledTypes) |->
        IF shuffledTypes[k] = "empty" /\ oneSpecial
        THEN "special"
        ELSE shuffledTypes[k]]

\* The upgrade of lines 51-56: oneSpecial is randomInt(0, 2) === 0.
upgradeTypes(shuffledTypes, oneSpecial) ==
    [k \in 1..Len(shuffledTypes) |->
        IF shuffledTypes[k] = "empty" /\ oneSpecial
              /\ (k - 1) = indexOf(shuffledTypes, "empty")
        THEN "special"
        ELSE shuffledTypes[k]]

\* The set without the second draw.
entranceSetFirstOnly(entranceIndex, secondEntrance) == {entranceIndex}

\* new Set([entranceIndex, secondEntrance])
entranceSet(entranceIndex, secondEntrance) == {entranceIndex, secondEntrance}

getDefaultContent(roomType) ==
    CASE roomType = "monster_treasure" ->
           "**Monster + Treasure**\n\nDescribe the encounter and the treasure here."
      [] roomType = "monster" -> "**Monster**\n\nDescribe the encounter."
      [] roomType = "treasure" ->
           "**Treasure** (hidden or trapped)\n\nDescribe how it's hidden or the trap."
      [] roomType = "special" ->
           "**Special**\n\nPuzzle, trick, or unusual feature."
      [] OTHER -> "**Empty**\n\nSet dressing and any minor details."

RoomLabels == <<"Room 1", "Room 2", "Room 3", "Room 4", "Room 5", "Room 6">>

\* The links of lines 70-82: the map throws at the first edge whose
\* normalized key is already in linkSet.
duplicateEdge(edges, nodeIds) ==
    \E i, j \in 1..Len(edges) :
        /\ i < j
        /\ norm(nodeIds[edges[i][1] + 1], nodeIds[edges[i][2] + 1])
             = norm(nodeIds[edges[j][1] + 1], nodeIds[edges[j][2] + 1])

makeLinks(edges, nodeIds, rolls) ==
    [k \in 1..Len(edges) |->
        [source |-> nodeIds[edges[k][1] + 1],
         target |-> nodeIds[edges[k][2] + 1],
         connectionType |-> randomConnectionType(rolls[k]),
         description |-> Undefined,
         clueRoomId |-> Undefined]]

makeNodes(nodeIds, types, entrances) ==
    [k \in 1..6 |->
        [id |-> nodeIds[k],
         label |-> RoomLabels[k],
         roomType |-> types[k],
         content |-> getDefaultContent(types[k]),
         entrance |-> (k - 1) \in entrances,
         parentNodeId |-> Undefined]]

EmptyGraph == [nodes |-> <<>>, links |-> <<>>]

\* generateBiteSizedDungeon() under the draws d:
\*   d.layout   seedLayout ?? randomInt(0, LAYOUTS.length - 1)
\*   d.ids      the six draws of generateId
\*   d.js       the draws of shuffle
\*   d.special  randomInt(0, 2)
\*   d.e1, d.e2 the two draws randomInt(0, 5)
\*   d.rolls    the six rolls of randomConnectionType
\* The result is [err, graph]: err names the exception thrown, if any.
generateBiteSizedDungeon(d) ==
    LET layoutIndex == d.layout
    IN  IF layoutIndex \notin 0..(Len(LAYOUTS) - 1)
        THEN [err |-> "TypeError", graph |-> EmptyGraph]
        ELSE
        LET edges == LAYOUTS[layoutIndex + 1]
            nodeIds == [k \in 1..6 |-> generateId(d.ids[k])]
            shuffledTypes == shuffle(ROOM_TYPES, d.js)
            oneSpecial == d.special = 0
            types == upgradeTypes(shuffledTypes, oneSpecial)
            entrances == entranceSet(d.e1, d.e2)
            nodes == makeNodes(nodeIds, types, entrances)
        IN  IF duplicateEdge(edges, nodeIds)
            THEN [err |-> "Duplicate edge", graph |-> EmptyGraph]
            ELSE [err |-> "none",
                  graph |-> [nodes |-> nodes,
                             links |-> makeLinks(edges, nodeIds, d.rolls)]]

---------------------------------------------------------------------------
(* graphUtils.ts                                                           *)

\* { ...n, ...updates }
spread(n, updates) ==
    [f \in DOMAIN n \cup DOMAIN updates |->
        IF f \in DOMAIN updates THEN updates[f] ELSE n[f]]

\* a ?? b
coalesce(a, b) == IF a = Undefined THEN b ELSE a

nodeIdsOf(g) == {g.nodes[k].id : k \in 1..Len(g.nodes)}

hasNode(g, nodeId) == \E k \in 1..Len(g.nodes) : g.nodes[k].id = nodeId

\* g.nodes.find((n) => n.id === nodeId), for a nodeId that hasNode.
findNode(g, nodeId) ==
    g.nodes[CHOOSE k \in 1..Len(g.nodes) :
                /\ g.nodes[k].id = nodeId
                /\ \A m \in 1..(k - 1) : g.nodes[m].id # nodeId]

updateNode(g, nodeId, updates) ==
    [g EXCEPT !.nodes =
        [k \in 1..Len(g.nodes) |->
            IF g.nodes[k].id = nodeId
            THEN spread(g.nodes[k], updates)
            ELSE g.nodes[k]]]

updateEdge(g, source, target, updates) ==
    LET key == norm(source, target)
    IN  [g EXCEPT !.links =
            [k \in 1..Len(g.links) |->
                IF norm(g.links[k].source, g.links[k].target) = key
                THEN spread(g.links[k], updates)
                ELSE g.links[k]]]

\* addEdge that looks for the pair only in the direction it is given in.
addEdgeDirected(g, source, target, connectionType) ==
    IF source = target THEN g
    ELSE LET exists == \E k \in 1..Len(g.links) :
                           /\ g.links[k].source = source
                           /\ g.links[k].target = target
         IN  IF exists THEN g
             ELSE [g EXCEPT !.links =
                      Append(g.links,
                             [source |-> source,
                              target |-> target,
                              connectionType |-> connectionType,
                              description |-> Undefined,
                              clueRoomId |-> Undefined])]

addEdge(g, source, target, connectionType) ==
    IF source = target THEN g
    ELSE LET key == norm(source, target)
             exists == \E k \in 1..Len(g.links) :
                           norm(g.links[k].source, g.links[k].target) = key
         IN  IF exists THEN g
             ELSE [g EXCEPT !.links =
                      Append(g.links,
                             [source |-> source,
                              target |-> target,
                              connectionType |-> connectionType,
                              description |-> Undefined,
                              clueRoomId |-> Undefined])]

\* newNodes of attachDungeon (lines 61-65).
attachedNodes(sub, nodeId) ==
    [k \in 1..Len(sub.nodes) |->
        [sub.nodes[k] EXCEPT !.parentNodeId = nodeId, !.entrance = FALSE]]

\* newLinks (lines 67-71 and 112-116): a copy of the unit's links.
copyLinks(sub) == [k \in 1..Len(sub.links) |-> sub.links[k]]

\* attachDungeon that leaves out the corridor to the new unit.
attachDungeonUnlinked(g, nodeId, d, corridorRoll) ==
    IF ~hasNode(g, nodeId) THEN [err |-> "none", graphData |-> g]
    ELSE
    LET gen == generateBiteSizedDungeon(d)
        sub == gen.graph
    IN  IF gen.err # "none" THEN [err |-> gen.err, graphData |-> g]
        ELSE [err |-> "none",
              graphData |->
                 [nodes |-> g.nodes \o attachedNodes(sub, nodeId),
                  links |-> g.links \o copyLinks(sub)]]

\* attachDungeon(g, nodeId) under the draws d of the generator and the
\* roll of the corridor.  The result is [err, graphData].
attachDungeon(g, nodeId, d, corridorRoll) ==
    IF ~hasNode(g, nodeId) THEN [err |-> "none", graphData |-> g]
    ELSE
    LET gen == generateBiteSizedDungeon(d)
        sub == gen.graph
    IN  IF gen.err # "none" THEN [err |-> gen.err, graphData |-> g]
        ELSE
        LET bridgeNodeId == sub.nodes[1].id
            corridorType == randomConnectionType(corridorRoll)
            connectingLink == [source |-> nodeId,
                               target |-> bridgeNodeId,
                               connectionType |-> corridorType,
                               description |-> Undefined,
                               clueRoomId |-> Undefined]
        IN  [err |-> "none",
             graphData |->
                [nodes |-> g.nodes \o attachedNodes(sub, nodeId),
                 links |-> (g.links \o copyLinks(sub)) \o <<connectingLink>>]]

\* newNodes of replaceNodeWithDungeon (lines 100-110).
replacedNodes(sub, node, nodeId, bridgeNodeId) ==
    [k \in 1..Len(sub.nodes) |->
        LET n == sub.nodes[k]
            isBridge == n.id = bridgeNodeId
        IN  [n EXCEPT
               !.parentNodeId = nodeId,
               !.entrance = IF isBridge THEN node.entrance ELSE FALSE,
               !.label = IF isBridge THEN coalesce(node.label, n.label) ELSE n.label,
               !.content = IF isBridge THEN coalesce(node.content, n.content)
                           ELSE n.content]]

\* reattachLinks that re-creates only the connections stored with the
\* replaced room as their source.
reattachSourceOnly(outgoingEdges, nodeId, bridgeNodeId) ==
    LET outward(l) == l.source = nodeId
        kept == SelectSeq(outgoingEdges, outward)
    IN  [k \in 1..Len(kept) |->
            [source |-> bridgeNodeId,
             target |-> kept[k].target,
             connectionType |-> kept[k].connectionType,
             description |-> kept[k].description,
             clueRoomId |-> kept[k].clueRoomId]]

\* reattachLinks (lines 123-132).
reattachLinks(outgoingEdges, nodeId, bridgeNodeId) ==
    [k \in 1..Len(outgoingEdges) |->
        LET oldLink == outgoingEdges[k]
            external == IF oldLink.source = nodeId THEN oldLink.target
                        ELSE oldLink.source
        IN  [source |-> bridgeNodeId,
             target |-> external,
             connectionType |-> oldLink.connectionType,
             description |-> IF oldLink.description # Undefined
                             THEN oldLink.description ELSE Undefined,
             clueRoomId |-> IF oldLink.clueRoomId # Undefined
                            THEN oldLink.clueRoomId ELSE Undefined]]

\* replaceNodeWithDungeon(g, nodeId) under the draws d of the generator.
\* The result is [err, graphData, bridgeNodeId].
replaceNodeWithDungeon(g, nodeId, d) ==
    IF ~hasNode(g, nodeId)
    THEN [err |-> "none", graphData |-> g, bridgeNodeId |-> nodeId]
    ELSE
    LET node == findNode(g, nodeId)
        touches(l) == l.source = nodeId \/ l.target = nodeId
        outgoingEdges == SelectSeq(g.links, touches)
        gen == generateBiteSizedDungeon(d)
        sub == gen.graph
    IN  IF gen.err # "none"
        THEN [err |-> gen.err, graphData |-> g, bridgeNodeId |-> Undefined]
        ELSE
        LET bridgeNodeId == sub.nodes[1].id
            newNodes == replacedNodes(sub, node, nodeId, bridgeNodeId)
            newLinks == copyLinks(sub)
            keepNode(n) == n.id # nodeId
            keepLink(l) == l.source # nodeId /\ l.target # nodeId
            nodesWithoutOld == SelectSeq(g.nodes, keepNode)
            linksWithoutOld == SelectSeq(g.links, keepLink)
        IN  [err |-> "none",
             graphData |->
                [nodes |-> nodesWithoutOld \o newNodes,
                 links |-> (linksWithoutOld \o newLinks)
                              \o reattachLinks(outgoingEdges, nodeId, bridgeNodeId)],
             bridgeNodeId |-> bridgeNodeId]

---------------------------------------------------------------------------
(* DungeonGraph.tsx: the topology analyzer.                                *)

\* The adjacency list of id: every link pushes its target on the list of its
\* source and then its source on the list of its target.
RECURSIVE adjacent(_, _)
adjacent(links, id) ==
    IF links = <<>> THEN <<>>
    ELSE LET e == Head(links)
         IN  ((IF e.source = id THEN <<e.target>> ELSE <<>>)
                 \o (IF e.target = id THEN <<e.source>> ELSE <<>>))
                 \o adjacent(Tail(links), id)

\* adj.get(e.s)!.push(e.t) throws a TypeError when adj has no entry for e.s.
dangling(nodeIds, links) ==
    \E k \in 1..Len(links) :
        links[k].source \notin nodeIds \/ links[k].target \notin nodeIds

\* The search of lines 105-116: queue is the queue, visited the set.
\* adj.get(id) ?? [] is the empty list for an id that is no node.
RECURSIVE search(_, _, _, _)
search(nodeIds, links, queue, visited) ==
    IF queue = <<>> THEN visited
    ELSE LET id == Head(queue)
             nbrs == IF id \in nodeIds THEN adjacent(links, id) ELSE <<>>
             fresh(nid) == nid \notin visited
             new == SelectSeq(nbrs, fresh)
         IN  search(nodeIds, links, Tail(queue) \o new, visited \cup Range(new))

\* The links that line 101 keeps when the link from s to t is under test.
keptLinks(links, s, t) ==
    LET kept(e) == ~(\/ e.source = s /\ e.target = t
                     \/ e.source = t /\ e.target = s)
    IN  SelectSeq(links, kept)

\* getBridgeLinkKeys(nodeIds, links): [err, keys].
getBridgeLinkKeys(nodeIds, links) ==
    LET rest(k) == keptLinks(links, links[k].source, links[k].target)
        isBridge(k) ==
            links[k].target
                \notin search(nodeIds, rest(k), <<links[k].source>>,
                              {links[k].source})
    IN  IF \E k \in 1..Len(links) : dangling(nodeIds, rest(k))
        THEN [err |-> "TypeError", keys |-> {}]
        ELSE [err |-> "none",
              keys |-> {norm(links[k].source, links[k].target) :
                           k \in {m \in 1..Len(links) : isBridge(m)}}]

\* The inner loop of lines 144-149 without the test !depths.has(nid):
\* every neighbour is labelled again.
labelAgain(depths, next, nbrs, d) ==
    [depths |-> [id \in DOMAIN depths \cup Range(nbrs) |->
                    IF id \in Range(nbrs) THEN d ELSE depths[id]],
     next |-> next \o SelectSeq(nbrs, LAMBDA nid : nid \notin DOMAIN depths)]

\* The inner loop of lines 144-149: the neighbours without a depth get d.
label(depths, next, nbrs, d) ==
    LET fresh(nid) == nid \notin DOMAIN depths
        new == SelectSeq(nbrs, fresh)
    IN  [depths |-> [id \in DOMAIN depths \cup Range(new) |->
                        IF id \in DOMAIN depths THEN depths[id] ELSE d],
         next |-> next \o new]

\* The loop of lines 142-150 over the frontier.
RECURSIVE sweep(_, _, _, _)
sweep(links, depths, frontier, next) ==
    IF frontier = <<>> THEN [depths |-> depths, next |-> next]
    ELSE LET id == Head(frontier)
             step == label(depths, next, adjacent(links, id), depths[id] + 1)
         IN  sweep(links, step.depths, Tail(frontier), step.next)

\* The loop of lines 140-152.
RECURSIVE levels(_, _, _)
levels(links, depths, frontier) ==
    IF frontier = <<>> THEN depths
    ELSE LET swept == sweep(links, depths, frontier, <<>>)
         IN  levels(links, swept.depths, swept.next)

\* getDepthsFromEntrances(nodeIds, links, entranceIds): [err, depths].
\* nodeIds is the sequence of the identifiers in the order of the Set.
getDepthsFromEntrances(nodeIds, links, entranceIds) ==
    LET roots == IF Len(entranceIds) > 0 THEN entranceIds
                 ELSE IF Len(nodeIds) > 0 THEN <<nodeIds[1]>> ELSE <<>>
    IN  IF dangling(Range(nodeIds), links)
             \/ \E k \in 1..Len(roots) : roots[k] \notin Range(nodeIds)
        THEN [err |-> "TypeError", depths |-> <<>>]
        ELSE [err |-> "none",
              depths |-> levels(links, [id \in Range(roots) |-> 0], roots)]

\* The identifiers of the rooms in the order of new Set(nodes.map(n => n.id)).
RECURSIVE setOrder(_)
setOrder(ids) ==
    IF ids = <<>> THEN <<>>
    ELSE LET front == SubSeq(ids, 1, Len(ids) - 1)
             tail == ids[Len(ids)]
         IN  IF tail \in Range(front) THEN setOrder(front)
             ELSE Append(setOrder(front), tail)

idsInOrder(g) == setOrder([k \in 1..Len(g.nodes) |-> g.nodes[k].id])

\* entranceIds (lines 172-175).
entranceIds(g) ==
    LET flagged(n) == n.entrance
        rooms == SelectSeq(g.nodes, flagged)
    IN  [k \in 1..Len(rooms) |-> rooms[k].id]

\* bridgeLinkKeys of the force layout (lines 177-184).
bridgeLinkKeys(g) == getBridgeLinkKeys(nodeIdsOf(g), g.links)

\* depths of the tree layout (lines 200-205).
treeDepths(g) ==
    IF Len(g.nodes) > 0
    THEN getDepthsFromEntrances(idsInOrder(g), g.links, entranceIds(g))
    ELSE [err |-> "none", depths |-> <<>>]

\* depths.get(id) ?? 0
depthOr0(depths, id) == IF id \in DOMAIN depths THEN depths[id] ELSE 0

\* graphData.links.find(e => e joins l's endpoints in either direction)
firstBetween(g, l) ==
    LET hits == {k \in 1..Len(g.links) :
                    \/ g.links[k].source = l.source /\ g.links[k].target = l.target
                    \/ g.links[k].source = l.target /\ g.links[k].target = l.source}
    IN  g.links[CHOOSE i \in hits : \A j \in hits : i <= j]

\* links of graphDataForForce in tree layout (lines 194-223): [err, links].
treeLinks(g) ==
    IF Len(g.nodes) = 0
    THEN [err |-> "none",
          links |-> [k \in 1..Len(g.links) |->
                        [source |-> g.links[k].source,
                         target |-> g.links[k].target,
                         connectionType |-> g.links[k].connectionType,
                         clueRoomId |-> g.links[k].clueRoomId]]]
    ELSE
    LET res == treeDepths(g)
        depths == res.depths
    IN  IF res.err # "none" THEN [err |-> res.err, links |-> <<>>]
        ELSE [err |-> "none",
              links |->
                 [k \in 1..Len(g.links) |->
                    LET l == g.links[k]
                        s == l.source
                        t == l.target
                        dS == depthOr0(depths, s)
                        dT == depthOr0(depths, t)
                        source == IF dS < dT THEN s
                                  ELSE IF dT < dS THEN t
                                  ELSE IF Rank(s) < Rank(t) THEN s ELSE t
                        target == IF source = s THEN t ELSE s
                        link == firstBetween(g, l)
                    IN  [source |-> source,
                         target |-> target,
                         connectionType |-> link.connectionType,
                         clueRoomId |-> link.clueRoomId]]]

---------------------------------------------------------------------------
(* The draws the actions choose from.                                      *)

\* Tape k: six pairwise different identifier draws, different from the
\* draws of every other tape.
IdTape(k) == [i \in 1..6 |-> 6 * (k - 1) + i]

\* Six draws of which the second and the fourth are equal.
RepeatTape == <<1, 2, 3, 2, 5, 6>>

\* Six draws of which the first two are equal: in the triangle layouts
\* two edges get one key and generate throws, in the square layouts the
\* edge [0, 1] is a self-loop and the unit has two rooms of one identifier.
LoopTape == <<1, 1, 3, 4, 5, 6>>

IdTapes == {IdTape(1), IdTape(2), LoopTape}

\* All draws of shuffle: js[i] \in 0..i.
ShuffleDraws ==
    {<<j1, j2, j3, j4, j5>> :
        j1 \in 0..1, j2 \in 0..2, j3 \in 0..3, j4 \in 0..4, j5 \in 0..5}

SampleShuffle == <<1, 0, 2, 4, 3>>

SampleRolls == <<900, 500, 700, 800, 0, 100>>

\* Rolls on both sides of every threshold of the roller.
RollSamples == {0, 446, 447, 669, 670, 779, 780, 889, 890, 999}

Draws(layouts, tapes, shuffles, specials, firsts, seconds, rollSeqs) ==
    [layout : layouts, ids : tapes, js : shuffles, special : specials,
     e1 : firsts, e2 : seconds, rolls : rollSeqs]

\* The draws of the editing session.
SessionLayouts == {0, 8}

GenDraws ==
    Draws(SessionLayouts, IdTapes, {SampleShuffle}, {0}, {0}, {3}, {SampleRolls})

\* The draws of the generator on its own: every shuffle with every upgrade
\* draw, every layout with every tape, every pair of entrance draws, and
\* rolls around the thresholds.
StockDraws ==
    Draws({0}, {IdTape(1)}, ShuffleDraws, 0..2, {0}, {3}, {SampleRolls})

LayoutDraws ==
    Draws(0..(Len(LAYOUTS) - 1), IdTapes \cup {RepeatTape}, {SampleShuffle},
          {0, 1}, {0}, {3}, {SampleRolls})

EntranceDraws ==
    Draws({4}, {IdTape(2)}, {SampleShuffle}, {1}, 0..5, 0..5, {SampleRolls})

RollDraws ==
    Draws({7}, {IdTape(2)}, {SampleShuffle}, {2}, {5}, {5},
          {[k \in 1..6 |-> r] : r \in RollSamples})

WideDraws == StockDraws \cup LayoutDraws \cup EntranceDraws \cup RollDraws

CorridorRolls == {999}

---------------------------------------------------------------------------
(* App.tsx: the handlers.  prev is the graph before the last handler call, *)
(* last records the call, removed the identifiers of the rooms that        *)
(* explode/replace took out of the graph.                                  *)

Call(op, a, b, arg, d, err, bridge) ==
    [op |-> op, a |-> a, b |-> b, arg |-> arg, d |-> d, err |-> err,
     bridgeNodeId |-> bridge]

NoDraws == [layout |-> 0, ids |-> <<>>, js |-> <<>>, special |-> 0,
            e1 |-> 0, e2 |-> 0, rolls |-> <<>>]

NoArg == [none |-> TRUE]

\* useState<string | null>(null)
Null == "<null>"

\* No connection is selected.
NoEdge == [source |-> Null, target |-> Null]

\* The selection and the add-connection form after the first render.
FreshUI ==
    /\ selectedNodeId = Null
    /\ selectedEdge = NoEdge
    /\ addEdgeSource = ""
    /\ addEdgeTarget = ""

\* useState(() => generateBiteSizedDungeon())
InitWith(draws) ==
    \E d \in draws :
        LET gen == generateBiteSizedDungeon(d)
        IN  /\ gen.err = "none"
            /\ graphData = gen.graph
            /\ prev = EmptyGraph
            /\ last = Call("init", Undefined, Undefined, NoArg, d, "none", Undefined)
            /\ removed = {}
            /\ nOps = 0
            /\ FreshUI

Init == InitWith(GenDraws)

\* handleNewDungeon
NewDungeonWith(draws) ==
    \E d \in draws :
        LET gen == generateBiteSizedDungeon(d)
        IN  /\ graphData' = IF gen.err = "none" THEN gen.graph ELSE graphData
            /\ prev' = graphData
            /\ last' = Call("newDungeon", Undefined, Undefined, NoArg, d, gen.err,
                            Undefined)
            /\ removed' = removed
            /\ nOps' = nOps + 1
            /\ selectedNodeId' = IF gen.err = "none" THEN Null ELSE selectedNodeId
            /\ selectedEdge' = IF gen.err = "none" THEN NoEdge ELSE selectedEdge

NewDungeon == nOps < MaxOps /\ NewDungeonWith(GenDraws) /\ UNCHANGED form

\* The identifiers a splice is called with: every room and a stranger.
IdArgs(g) == nodeIdsOf(g) \cup {Ghost}

firstRoom(g) == g.nodes[1].id

lastRoom(g) == g.nodes[Len(g.nodes)].id

\* The identifiers a field edit is called with.
EditIds(g) == {firstRoom(g), Ghost}

NodeUpdates ==
    {[label |-> ""], [content |-> ""], [entrance |-> TRUE], [entrance |-> FALSE]}

handleUpdateNode(nodeId, updates) ==
    /\ graphData' = updateNode(graphData, nodeId, updates)
    /\ prev' = graphData
    /\ last' = Call("updateNode", nodeId, Undefined, updates, NoDraws, "none",
                    Undefined)
    /\ removed' = removed
    /\ nOps' = nOps + 1
    /\ UNCHANGED selection

\* handleUpdateNode called with a room or a stranger.
UpdateNode ==
    /\ nOps < MaxOps
    /\ \E nodeId \in EditIds(graphData), updates \in NodeUpdates :
        handleUpdateNode(nodeId, updates)
    /\ UNCHANGED form

\* The endpoint pairs an edit of a connection is called with: the first
\* connection as stored and reversed, and a pair that names a stranger.
EdgePairs(g) ==
    LET first == g.links[1]
    IN  {<<first.source, first.target>>, <<first.target, first.source>>,
         <<Ghost, firstRoom(g)>>}

\* The connection the editor of a connection shows for the selected pair.
shownLink(g, source, target) ==
    LET hits == {k \in 1..Len(g.links) :
                    \/ g.links[k].source = source /\ g.links[k].target = target
                    \/ g.links[k].source = target /\ g.links[k].target = source}
    IN  IF hits = {} THEN [connectionType |-> "open", description |-> "",
                           clueRoomId |-> ""]
        ELSE LET k == CHOOSE i \in hits : \A j \in hits : i <= j
             IN  [connectionType |-> g.links[k].connectionType,
                  description |-> coalesce(g.links[k].description, ""),
                  clueRoomId |-> coalesce(g.links[k].clueRoomId, "")]

\* The edits the editor of a connection offers: a category, a description
\* and, on a connection shown as secret, the clue room among the rooms at
\* its two ends.
EdgeUpdates(g, source, target) ==
    {[connectionType |-> "secret"], [description |-> "a rusty door"]}
        \cup IF shownLink(g, source, target).connectionType = "secret"
             THEN {[clueRoomId |-> source]} \cap
                      {[clueRoomId |-> id] : id \in nodeIdsOf(g)}
             ELSE {}

handleUpdateEdge(source, target, updates) ==
    /\ graphData' = updateEdge(graphData, source, target, updates)
    /\ prev' = graphData
    /\ last' = Call("updateEdge", source, target, updates, NoDraws, "none",
                    Undefined)
    /\ removed' = removed
    /\ nOps' = nOps + 1
    /\ UNCHANGED selection

\* handleUpdateEdge called with the pairs of EdgePairs.
UpdateEdge ==
    /\ nOps < MaxOps
    /\ \E pair \in EdgePairs(graphData) :
        \E updates \in EdgeUpdates(graphData, pair[1], pair[2]) :
            handleUpdateEdge(pair[1], pair[2], updates)
    /\ UNCHANGED form

\* The endpoint pairs add-connection is called with.
NewEdgePairs(g) ==
    EdgePairs(g) \cup
        {<<firstRoom(g), lastRoom(g)>>, <<lastRoom(g), firstRoom(g)>>,
         <<lastRoom(g), lastRoom(g)>>}

handleAddEdge(source, target, connectionType) ==
    /\ graphData' = addEdge(graphData, source, target, connectionType)
    /\ prev' = graphData
    /\ last' = Call("addEdge", source, target,
                    [connectionType |-> connectionType], NoDraws, "none",
                    Undefined)
    /\ removed' = removed
    /\ nOps' = nOps + 1
    /\ UNCHANGED selection

\* handleAddEdge called with the pairs of NewEdgePairs.
AddEdge ==
    /\ nOps < MaxOps
    /\ \E pair \in NewEdgePairs(graphData), connectionType \in {"closed"} :
        handleAddEdge(pair[1], pair[2], connectionType)
    /\ UNCHANGED form

\* handleAttachDungeon: the selected room is cleared whatever the updater
\* of the graph does.
handleAttachDungeon(nodeId, d, roll) ==
    LET res == attachDungeon(graphData, nodeId, d, roll)
    IN  /\ graphData' = res.graphData
        /\ prev' = graphData
        /\ last' = Call("attach", nodeId, Undefined, [corridorRoll |-> roll], d,
                        res.err, Undefined)
        /\ removed' = removed
        /\ nOps' = nOps + 1
        /\ selectedNodeId' = Null
        /\ selectedEdge' = selectedEdge

\* handleAttachDungeon called with a room or a stranger.
AttachDungeon ==
    /\ nOps < MaxOps
    /\ Len(graphData.nodes) <= MaxRooms
    /\ \E nodeId \in IdArgs(graphData), d \in GenDraws, roll \in CorridorRolls :
        handleAttachDungeon(nodeId, d, roll)
    /\ UNCHANGED form

\* handleReplaceWithDungeon: when the generator throws, neither the graph
\* nor the selection is set.
handleReplaceWithDungeon(nodeId, d) ==
    LET res == replaceNodeWithDungeon(graphData, nodeId, d)
    IN  /\ graphData' = res.graphData
        /\ prev' = graphData
        /\ last' = Call("replace", nodeId, Undefined, NoArg, d, res.err,
                        res.bridgeNodeId)
        /\ removed' = IF res.err = "none" /\ hasNode(graphData, nodeId)
                      THEN removed \cup {nodeId} ELSE removed
        /\ nOps' = nOps + 1
        /\ selectedNodeId' = IF res.err = "none" THEN res.bridgeNodeId
                             ELSE selectedNodeId
        /\ selectedEdge' = selectedEdge

\* handleReplaceWithDungeon called with a room or a stranger.
ReplaceWithDungeon ==
    /\ nOps < MaxOps
    /\ Len(graphData.nodes) <= MaxRooms
    /\ \E nodeId \in IdArgs(graphData), d \in GenDraws :
        handleReplaceWithDungeon(nodeId, d)
    /\ UNCHANGED form

Next ==
    \/ NewDungeon
    \/ UpdateNode
    \/ UpdateEdge
    \/ AddEdge
    \/ AttachDungeon
    \/ ReplaceWithDungeon

Spec == Init /\ [][Next]_vars

\* The generator on its own: the first click on "New dungeon", under every
\* draw of WideDraws.
GenerateOnce == nOps = 0 /\ NewDungeonWith(WideDraws) /\ UNCHANGED form

SpecGen == Init /\ [][GenerateOnce]_vars

---------------------------------------------------------------------------
(* The exported functions called on their own, on graphs of the type       *)
(* GraphData that no generator made: rooms with opaque identifiers, links  *)
(* in both directions, parallel links and a self-loop.                     *)

\* Links of a graph under test: at most this many.
MaxLinks == 4

\* The rooms of a graph under test, in the order of g.nodes.
PlainRooms == <<"a", "b-c", "a-b", "c">>

plainNode(id) ==
    [id |-> id, label |-> id, roomType |-> "empty",
     content |-> getDefaultContent("empty"), entrance |-> FALSE,
     parentNodeId |-> Undefined]

plainLink(pair) ==
    [source |-> pair[1], target |-> pair[2], connectionType |-> "open",
     description |-> Undefined, clueRoomId |-> Undefined]

\* The links of a graph under test are drawn from these: a path
\* b-c, a, a-b, c closed to a triangle by c-a, one link stored a second
\* time in the other direction, and a self-loop.
PlainPairs ==
    {<<"a", "b-c">>, <<"a-b", "c">>, <<"c", "a">>, <<"a", "a-b">>,
     <<"c", "a-b">>, <<"a", "a">>}

plainGraph(pairs) ==
    [nodes |-> [k \in 1..Len(PlainRooms) |-> plainNode(PlainRooms[k])],
     links |-> [k \in 1..Len(pairs) |-> plainLink(pairs[k])]]

PlainGraphs ==
    {plainGraph(pairs) : pairs \in UNION {[1..n -> PlainPairs] : n \in 0..MaxLinks}}

\* One generated unit of every catalog topology.
CatalogGraphs ==
    {generateBiteSizedDungeon(d).graph :
        d \in Draws(0..(Len(LAYOUTS) - 1), {IdTape(1)}, {SampleShuffle}, {1},
                    {0}, {3}, {SampleRolls})}

InputGraphs == (PlainGraphs \cup CatalogGraphs) \cup {EmptyGraph}

InitLib ==
    /\ graphData \in InputGraphs
    /\ prev = EmptyGraph
    /\ last = Call("input", Undefined, Undefined, NoArg, NoDraws, "none", Undefined)
    /\ removed = {}
    /\ nOps = 0
    /\ FreshUI

\* The endpoint pairs the functions are called with.
CallPairs == {<<"a", "b-c">>, <<"b-c", "a">>, <<"a-b", "c">>, <<"a", "a">>}

\* updateEdge(g, source, target, updates)
CallUpdateEdge ==
    /\ nOps = 0
    /\ \E pair \in CallPairs :
        \E updates \in {[connectionType |-> "secret"], [description |-> "a rusty door"]} :
            /\ graphData' = updateEdge(graphData, pair[1], pair[2], updates)
            /\ prev' = graphData
            /\ last' = Call("updateEdge", pair[1], pair[2], updates, NoDraws,
                            "none", Undefined)
            /\ removed' = removed
            /\ nOps' = nOps + 1
            /\ UNCHANGED <<selection, form>>

\* addEdge(g, source, target, connectionType)
CallAddEdge ==
    /\ nOps = 0
    /\ \E pair \in CallPairs, connectionType \in {"closed", "secret"} :
        /\ graphData' = addEdge(graphData, pair[1], pair[2], connectionType)
        /\ prev' = graphData
        /\ last' = Call("addEdge", pair[1], pair[2],
                        [connectionType |-> connectionType], NoDraws, "none",
                        Undefined)
        /\ removed' = removed
        /\ nOps' = nOps + 1
        /\ UNCHANGED <<selection, form>>

\* getBridgeLinkKeys(nodeIds, links) on the graph: last.arg is the result.
CallBridges ==
    /\ nOps = 0
    /\ graphData' = graphData
    /\ prev' = graphData
    /\ last' = Call("getBridgeLinkKeys", Undefined, Undefined,
                    getBridgeLinkKeys(nodeIdsOf(graphData), graphData.links),
                    NoDraws, "none", Undefined)
    /\ removed' = removed
    /\ nOps' = nOps + 1
    /\ UNCHANGED <<selection, form>>

\* The root lists the depth labelling is called with: none, the second
\* room, and the second and the last room in both orders.
RootLists(g) ==
    IF Len(g.nodes) < 2 THEN {<<>>}
    ELSE LET x == g.nodes[2].id
             y == lastRoom(g)
         IN  {<<>>, <<x>>, <<x, y>>, <<y, x>>}

\* getDepthsFromEntrances(nodeIds, links, entranceIds) on the graph:
\* last.arg holds the roots and the result.
CallDepths ==
    /\ nOps = 0
    /\ \E roots \in RootLists(graphData) :
        LET res == getDepthsFromEntrances(idsInOrder(graphData),
                                          graphData.links, roots)
        IN  /\ graphData' = graphData
            /\ prev' = graphData
            /\ last' = Call("getDepthsFromEntrances", Undefined, Undefined,
                            [roots |-> roots, err |-> res.err,
                             depths |-> res.depths],
                            NoDraws, "none", Undefined)
            /\ removed' = removed
            /\ nOps' = nOps + 1
            /\ UNCHANGED <<selection, form>>

NextLib ==
    \/ CallUpdateEdge
    \/ CallAddEdge
    \/ CallBridges
    \/ CallDepths

SpecLib == InitLib /\ [][NextLib]_vars

---------------------------------------------------------------------------
(* The roller on its own: one call for every outcome of Math.floor(        *)
(* Math.random() * 1000), in increasing order.  nOps is the next roll,     *)
(* last.arg the number of rolls that gave each category.                   *)

InitRoll ==
    /\ graphData = EmptyGraph
    /\ prev = EmptyGraph
    /\ last = Call("roll", Undefined, Undefined,
                   [t \in ConnectionTypes |-> 0], NoDraws, "none", Undefined)
    /\ removed = {}
    /\ nOps = 0
    /\ FreshUI

RollNext ==
    /\ nOps < RollRange
    /\ LET category == randomConnectionType(nOps)
       IN  /\ category \in DOMAIN last.arg
           /\ last' = [last EXCEPT !.a = category,
                                   !.arg[category] = last.arg[category] + 1]
    /\ nOps' = nOps + 1
    /\ UNCHANGED <<selection, form>>
    /\ UNCHANGED <<graphData, prev, removed>>

SpecRoll == InitRoll /\ [][RollNext]_vars

---------------------------------------------------------------------------
(* The generator called with a topology index.                             *)

\* generateBiteSizedDungeon(seedLayout): the indices of the catalog and
\* two on either side.
SeedLayouts == (0 - 2)..(Len(LAYOUTS) + 1)

SeedDraws ==
    Draws(SeedLayouts, IdTapes, {SampleShuffle}, 0..2, 0..5, {3}, {SampleRolls})

GenerateSeeded ==
    /\ nOps = 0
    /\ \E d \in SeedDraws :
        LET gen == generateBiteSizedDungeon(d)
        IN  /\ graphData' = IF gen.err = "none" THEN gen.graph ELSE graphData
            /\ prev' = graphData
            /\ last' = Call("generate", Undefined, Undefined, NoArg, d, gen.err,
                            Undefined)
            /\ removed' = removed
            /\ nOps' = nOps + 1
            /\ UNCHANGED <<selection, form>>

SpecSeed == Init /\ [][GenerateSeeded]_vars

---------------------------------------------------------------------------
(* Paths.                                                                  *)

\* The identifiers one connection away from a member of S.
neighbours(g, S) ==
    {g.links[k].target : k \in {m \in 1..Len(g.links) : g.links[m].source \in S}}
        \cup
    {g.links[k].source : k \in {m \in 1..Len(g.links) : g.links[m].target \in S}}

RECURSIVE reachFrom(_, _)
reachFrom(g, S) ==
    LET N == S \cup neighbours(g, S)
    IN  IF N = S THEN S ELSE reachFrom(g, N)

\* a and b are joined by a path of connections of g.
Joined(g, a, b) == b \in reachFrom(g, {a})

Connected(g) == \A a, b \in nodeIdsOf(g) : Joined(g, a, b)

withoutLink(g, k) ==
    [g EXCEPT !.links = [m \in 1..(Len(g.links) - 1) |->
                            IF m < k THEN g.links[m] ELSE g.links[m + 1]]]

\* Some connection lies on a cycle: its endpoints stay joined without it.
HasCycle(g) ==
    \E k \in 1..Len(g.links) :
        Joined(withoutLink(g, k), g.links[k].source, g.links[k].target)

pairOf(l) == {l.source, l.target}

NoParallel(g) ==
    \A i, j \in 1..Len(g.links) : i # j => pairOf(g.links[i]) # pairOf(g.links[j])

NoSelfLoop(g) == \A k \in 1..Len(g.links) : g.links[k].source # g.links[k].target

Generated == last.op \in {"init", "newDungeon"} /\ last.err = "none"

countType(g, t) == Cardinality({k \in 1..Len(g.nodes) : g.nodes[k].roomType = t})

entrancePositions(g) == {k \in 1..Len(g.nodes) : g.nodes[k].entrance}

---------------------------------------------------------------------------
(* The generated unit.                                                     *)

\* C7: for every outcome of the shuffle and of the upgrade draw, the six
\* rooms of a generated unit hold exactly one "monster_treasure", one
\* "monster", one "treasure", and three rooms that are "empty" or
\* "special", of which at most one is "special".
C7_ContentMultiset ==
    Generated =>
        /\ Len(graphData.nodes) = 6
        /\ countType(graphData, "monster_treasure") = 1
        /\ countType(graphData, "monster") = 1
        /\ countType(graphData, "treasure") = 1
        /\ countType(graphData, "empty") + countType(graphData, "special") = 3
        /\ countType(graphData, "special") <= 1

\* A unit generated with the upgrade, after a shuffle that moved
\* "monster_treasure" to the last position and an "empty" to the first.
C7_Witness ==
    /\ last.op = "newDungeon" /\ last.err = "none"
    /\ last.d.special = 0
    /\ countType(graphData, "special") = 1
    /\ countType(graphData, "empty") = 2
    /\ graphData.nodes[1].roomType = "special"
    /\ graphData.nodes[6].roomType = "monster_treasure"

\* C8: a generated unit has at least one and at most two entrance rooms:
\* the flagged rooms are exactly the two drawn positions, one room when
\* the draws coincide and two otherwise.
C8_Entrances ==
    Generated =>
        /\ entrancePositions(graphData) = {last.d.e1 + 1, last.d.e2 + 1}
        /\ Cardinality(entrancePositions(graphData)) \in {1, 2}
        /\ (Cardinality(entrancePositions(graphData)) = 1) <=> (last.d.e1 = last.d.e2)

\* A unit whose two entrance draws coincide at the last position.
C8_Witness ==
    /\ last.op = "newDungeon" /\ last.err = "none"
    /\ last.d.e1 = 5 /\ last.d.e2 = 5
    /\ entrancePositions(graphData) = {6}

\* C6: for every topology index 0..9, generate returns six rooms and six
\* connections whose endpoint pairs are the topology's index pairs mapped to
\* the six room identifiers; the unit uses all six rooms, has no duplicate
\* unordered pair and no self-loop, is connected and contains a cycle.
C6_UnitShape ==
    last.op \in {"init", "newDungeon"} =>
        LET edges == LAYOUTS[last.d.layout + 1]
            g == graphData
        IN  /\ last.err = "none"
            /\ Len(g.nodes) = 6
            /\ Len(g.links) = 6
            /\ \A k \in 1..6 :
                   /\ g.links[k].source = g.nodes[edges[k][1] + 1].id
                   /\ g.links[k].target = g.nodes[edges[k][2] + 1].id
            /\ Cardinality(UNION {pairOf(g.links[k]) : k \in 1..6}) = 6
            /\ NoParallel(g)
            /\ NoSelfLoop(g)
            /\ Connected(g)
            /\ HasCycle(g)

---------------------------------------------------------------------------
(* The graph under the handlers.                                           *)

\* The last call ran the generator: the initial render and "New dungeon"
\* always do, attach and explode/replace when the room is found.
Minting ==
    \/ last.op \in {"init", "newDungeon"}
    \/ last.op \in {"attach", "replace"} /\ hasNode(prev, last.a)

\* The identifiers the last call minted.
minted == {generateId(last.d.ids[k]) : k \in 1..6}

\* The unit the last call generated.
lastUnit == generateBiteSizedDungeon(last.d).graph

Replaced == last.op = "replace" /\ hasNode(prev, last.a)

Attached == last.op = "attach" /\ hasNode(prev, last.a)

touching(g, id) ==
    LET touches(l) == l.source = id \/ l.target = id
    IN  SelectSeq(g.links, touches)

otherEnd(l, id) == IF l.source = id THEN l.target ELSE l.source

\* What a connection of room id looks like from outside: the other
\* endpoint, the category, the description and the clue room.
facetsOf(links, id) ==
    [k \in 1..Len(links) |->
        <<otherEnd(links[k], id), links[k].connectionType,
          links[k].description, links[k].clueRoomId>>]

occurrences(seq, x) == Cardinality({k \in 1..Len(seq) : seq[k] = x})

sameBag(s, t) ==
    \A x \in Range(s) \cup Range(t) : occurrences(s, x) = occurrences(t, x)

\* The connections of g between room id and a room of the set rooms.
between(g, id, rooms) ==
    LET joins(l) == \/ l.source = id /\ l.target \in rooms
                    \/ l.target = id /\ l.source \in rooms
    IN  SelectSeq(g.links, joins)

\* C1: explode/replace of a room R of the graph: afterwards R is no room
\* and no connection names R, and the connections between the bridge room
\* and the rooms that were there before are, one for one, R's former
\* connections: same other endpoint, category, description and clue room.
C1_ReplaceKeepsExternalEdges ==
    Replaced =>
        LET R == last.a
            oldRooms == nodeIdsOf(prev) \ {R}
        IN  /\ last.err = "none"
            /\ ~hasNode(graphData, R)
            /\ Len(touching(graphData, R)) = 0
            /\ sameBag(facetsOf(between(graphData, last.bridgeNodeId, oldRooms),
                                last.bridgeNodeId),
                       facetsOf(touching(prev, R), R))

withoutRoom(g, id) ==
    LET keep(l) == l.source # id /\ l.target # id
    IN  [g EXCEPT !.links = SelectSeq(g.links, keep)]

C3_EndpointsAreRooms ==
    /\ \A k \in 1..Len(graphData.links) :
           /\ graphData.links[k].source \in nodeIdsOf(graphData)
           /\ graphData.links[k].target \in nodeIdsOf(graphData)
    /\ (last.op = "addEdge"
          /\ (last.a \notin nodeIdsOf(prev) \/ last.b \notin nodeIdsOf(prev)))
         => graphData = prev

\* C4: the graph holds at most one connection for any unordered pair of
\* rooms, and no connection from a room to itself.
C4_NoParallelNoSelfLoop == NoParallel(graphData) /\ NoSelfLoop(graphData)

\* C5: no two rooms of the graph have the same identifier: the six
\* identifiers minted by one generator call are pairwise distinct and
\* differ from every identifier already in the graph and from the
\* identifier of every room removed earlier.
C5_UniqueIds ==
    /\ \A i, j \in 1..Len(graphData.nodes) :
           i # j => graphData.nodes[i].id # graphData.nodes[j].id
    /\ Minting =>
           /\ Cardinality(minted) = 6
           /\ minted \cap removed = {}
           /\ last.op \in {"attach", "replace"} => minted \cap nodeIdsOf(prev) = {}

lastRooms(g, n) == SubSeq(g.nodes, Len(g.nodes) - n + 1, Len(g.nodes))

\* C9: attach to a room R of the graph returns the input rooms unchanged,
\* followed by six new rooms, each tagged with R and with its entrance flag
\* cleared, and the input connections unchanged, followed by the six
\* connections of the new unit and one connection between R and the first
\* new room, the only one between the two: six rooms and seven
\* connections more.
C9_AttachFrame ==
    Attached =>
        LET R == last.a
            sub == lastUnit
            n == Len(prev.nodes)
            m == Len(prev.links)
            bridge == sub.nodes[1].id
        IN  /\ last.err = "none"
            /\ Len(graphData.nodes) = n + 6
            /\ Len(graphData.links) = m + 7
            /\ SubSeq(graphData.nodes, 1, n) = prev.nodes
            /\ \A k \in 1..6 :
                   LET new == graphData.nodes[n + k]
                       gen == sub.nodes[k]
                   IN  /\ new.parentNodeId = R
                       /\ new.entrance = FALSE
                       /\ new.id = gen.id
                       /\ new.label = gen.label
                       /\ new.roomType = gen.roomType
                       /\ new.content = gen.content
            /\ SubSeq(graphData.links, 1, m) = prev.links
            /\ SubSeq(graphData.links, m + 1, m + 6) = sub.links
            /\ pairOf(graphData.links[m + 7]) = {R, bridge}
            /\ Len(between(graphData, R, {bridge})) = 1

\* C10: explode/replace of a room R: the bridge room, the first room of
\* the new unit, whose identifier is returned, carries R's entrance flag,
\* label and content; the other five new rooms keep their generated label
\* and content, have their entrance flag cleared and carry R as
\* provenance; the graph has five rooms more.
C10_BridgeInherits ==
    Replaced =>
        LET R == last.a
            old == findNode(prev, R)
            sub == lastUnit
            new == lastRooms(graphData, 6)
        IN  /\ last.err = "none"
            /\ Len(graphData.nodes) = Len(prev.nodes) + 5
            /\ last.bridgeNodeId = sub.nodes[1].id
            /\ new[1].id = last.bridgeNodeId
            /\ new[1].entrance = old.entrance
            /\ new[1].label = old.label
            /\ new[1].content = old.content
            /\ \A k \in 2..6 :
                   /\ new[k].id = sub.nodes[k].id
                   /\ new[k].label = sub.nodes[k].label
                   /\ new[k].content = sub.nodes[k].content
                   /\ new[k].entrance = FALSE
                   /\ new[k].parentNodeId = R

---------------------------------------------------------------------------
(* The graph mutator, function by function.                                *)

newLink(source, target, connectionType) ==
    [source |-> source, target |-> target, connectionType |-> connectionType,
     description |-> Undefined, clueRoomId |-> Undefined]

\* C11: add-connection is idempotent and rejects degenerate requests:
\* after adding a-b, adding a-b or b-a again with any category returns the
\* same graph (the first category is kept); adding a connection from a room
\* to itself returns the input graph; a connection that is added is
\* appended last, with the given category, no description and no clue room.
C11_AddEdgeIdempotent ==
    last.op = "addEdge" =>
        LET a == last.a
            b == last.b
        IN  /\ graphData.nodes = prev.nodes
            /\ a = b => graphData = prev
            /\ \A again \in ConnectionTypes :
                   /\ addEdge(graphData, a, b, again) = graphData
                   /\ addEdge(graphData, b, a, again) = graphData
            /\ graphData # prev =>
                   graphData.links
                       = Append(prev.links, newLink(a, b, last.arg.connectionType))

\* A connection b-c to a was added to a graph that had three others.
C11_Witness ==
    /\ last.op = "addEdge"
    /\ last.a = "b-c" /\ last.b = "a"
    /\ last.arg.connectionType = "secret"
    /\ Len(prev.links) = 3
    /\ Len(graphData.links) = 4
    /\ graphData.links[4].source = "b-c"

\* The connections of g whose set of endpoints is {s, t}.
joining(g, s, t) == {k \in 1..Len(g.links) : pairOf(g.links[k]) = {s, t}}

\* C12: invalid references are silent no-ops: update-room with an
\* identifier of no room, update-connection with an endpoint pair of no
\* connection, attach and explode/replace with an identifier of no room
\* each return the input graph, rooms and connections in the same order,
\* and raise no error.
C12_InvalidReferenceNoOp ==
    LET stranger == ~hasNode(prev, last.a)
        noSuchLink == joining(prev, last.a, last.b) = {}
    IN  (\/ last.op \in {"updateNode", "attach", "replace"} /\ stranger
         \/ last.op = "updateEdge" /\ noSuchLink)
            => (graphData = prev /\ last.err = "none")

\* C13: update-connection(g, s, t, u) applies u to exactly the connections
\* of g whose set of endpoints is {s, t}, in whichever direction they are
\* stored, and leaves every other connection and every room unchanged, so
\* that update(g, s, t, u) = update(g, t, s, u); for all identifier
\* strings, those that contain the character '-' included.
C13_UpdateEdgeByPair ==
    last.op = "updateEdge" =>
        LET s == last.a
            t == last.b
            u == last.arg
        IN  /\ graphData.nodes = prev.nodes
            /\ Len(graphData.links) = Len(prev.links)
            /\ \A k \in 1..Len(prev.links) :
                   graphData.links[k]
                       = IF k \in joining(prev, s, t)
                         THEN spread(prev.links[k], u)
                         ELSE prev.links[k]
            /\ updateEdge(prev, t, s, u) = graphData

pairsOf(g) == {pairOf(g.links[k]) : k \in 1..Len(g.links)}

\* s is the beginning of t.
isPrefix(s, t) == Len(s) <= Len(t) /\ SubSeq(t, 1, Len(s)) = s

\* C14: rooms are destroyed only by explode/replace: update-room,
\* update-connection, add-connection and attach return a graph whose room
\* identifiers and unordered connection pairs contain those of the input;
\* explode/replace of R removes exactly the room R and exactly the
\* connections touching R, and keeps every other room and connection
\* unchanged.
C14_OnlyReplaceDestroys ==
    /\ last.op \in {"updateNode", "updateEdge", "addEdge", "attach"} =>
           /\ nodeIdsOf(prev) \subseteq nodeIdsOf(graphData)
           /\ pairsOf(prev) \subseteq pairsOf(graphData)
    /\ (Replaced /\ last.err = "none") =>
           LET R == last.a
               otherRoom(n) == n.id # R
               otherLink(l) == l.source # R /\ l.target # R
           IN  /\ R \notin nodeIdsOf(graphData)
               /\ touching(graphData, R) = <<>>
               /\ isPrefix(SelectSeq(prev.nodes, otherRoom), graphData.nodes)
               /\ isPrefix(SelectSeq(prev.links, otherLink), graphData.links)
               /\ Len(SelectSeq(prev.nodes, otherRoom)) = Len(prev.nodes) - 1

---------------------------------------------------------------------------
(* The topology analyzer.                                                  *)

BridgesCalled == last.op = "getBridgeLinkKeys"

\* Every endpoint of a connection of g is a room of g.
WellFormed(g) == ~dangling(nodeIdsOf(g), g.links)

keyOf(l) == norm(l.source, l.target)

\* C15: bridge detection on a graph without parallel edges whose connection
\* endpoints are all rooms: the normalized key of a connection is in the
\* returned set exactly if no path joins its two endpoints once that
\* connection is removed; for the catalog topologies these are the
\* connections off the cycle.
C15_BridgesAreCutEdges ==
    (BridgesCalled /\ NoParallel(graphData) /\ WellFormed(graphData)) =>
        /\ last.arg.err = "none"
        /\ \A k \in 1..Len(graphData.links) :
               LET l == graphData.links[k]
               IN  keyOf(l) \in last.arg.keys
                       <=> ~Joined(withoutLink(graphData, k), l.source, l.target)

\* C18: bridge detection leaves out only the connection under test: of two
\* or more connections that join the same pair of rooms none is reported as
\* a bridge, and a connection from a room to itself is never reported.
C18_ParallelEdgesAreNoBridges ==
    (BridgesCalled /\ WellFormed(graphData)) =>
        \A k \in 1..Len(graphData.links) :
            LET l == graphData.links[k]
                twin == \E m \in 1..Len(graphData.links) :
                            m # k /\ pairOf(graphData.links[m]) = pairOf(l)
            IN  (twin \/ l.source = l.target) => keyOf(l) \notin last.arg.keys

DepthsCalled == last.op = "getDepthsFromEntrances"

\* The identifiers at most n connections away from a member of S.
RECURSIVE ball(_, _, _)
ball(g, S, n) == IF n = 0 THEN S ELSE ball(g, S \cup neighbours(g, S), n - 1)

\* The least number of connections on a path from a member of S to id, for
\* an id that some path reaches.
distance(g, S, id) ==
    CHOOSE n \in 0..Len(g.nodes) :
        /\ id \in ball(g, S, n)
        /\ \A m \in 0..(n - 1) : id \notin ball(g, S, m)

reverse(s) == [k \in 1..Len(s) |-> s[Len(s) + 1 - k]]

\* C16: multi-source depth labelling, for every graph and every non-empty
\* root set within the node set: the returned map is defined exactly on the
\* nodes that a path joins to some root, gives each the least number of
\* connections on a path from any root, 0 for the roots, and is the same
\* for the roots in the other order; with no root given, the only root is
\* the first node of the node set.
C16_DepthsAreDistances ==
    (DepthsCalled /\ WellFormed(graphData)) =>
        LET g == graphData
            given == last.arg.roots
            roots == IF given # <<>> THEN Range(given)
                     ELSE IF g.nodes # <<>> THEN {firstRoom(g)} ELSE {}
            depths == last.arg.depths
            again == getDepthsFromEntrances(idsInOrder(g), g.links, reverse(given))
        IN  /\ last.arg.err = "none"
            /\ DOMAIN depths = reachFrom(g, roots)
            /\ \A id \in DOMAIN depths : depths[id] = distance(g, roots, id)
            /\ \A id \in roots : depths[id] = 0
            /\ again.err = "none" /\ again.depths = depths

\* Two roots on a catalog topology, and a room one connection from the
\* first and three from the second.
C16_Witness ==
    /\ DepthsCalled
    /\ last.arg.roots = <<"room-b", "room-f">>
    /\ "room-a" \in DOMAIN last.arg.depths
    /\ last.arg.depths["room-a"] = 1
    /\ distance(graphData, {"room-f"}, "room-a") = 3
    /\ distance(graphData, {"room-b"}, "room-a") = 1

---------------------------------------------------------------------------
(* The roller.                                                             *)

\* The stated distribution, in percent.
StatedPercent ==
    [t \in ConnectionTypes |->
        CASE t = "open" -> 45
          [] t = "closed" -> 22
          [] OTHER -> 11]

\* The rolls per category over all outcomes.
RollCounts ==
    [t \in ConnectionTypes |->
        CASE t = "open" -> 447
          [] t = "closed" -> 223
          [] OTHER -> 110]

tallied == last.arg["open"] + last.arg["closed"] + last.arg["trapped"]
               + last.arg["hazardous"] + last.arg["secret"]

---------------------------------------------------------------------------
(* The analyzer on the graphs of the handlers, and the generator called    *)
(* with an index.                                                          *)

\* C19: the topology analyzer never fails: on every graph that generate,
\* the updates, add-connection with any identifiers, attach and
\* explode/replace lead to, bridge detection and depth labelling from the
\* entrance rooms return a result and raise no error.  (The analyzer has no
\* access to the graph but to read it: both are functions of the graph.)
C19_AnalyzerNeverFails ==
    /\ bridgeLinkKeys(graphData).err = "none"
    /\ treeDepths(graphData).err = "none"

\* C20: generate fails only on an internal consistency violation: with any
\* integer topology index and with none, it raises an error only if two
\* edges of the chosen topology normalize to the same pair of room
\* identifiers; it raises for no catalog index 0..9.
C20_GenerateFailsOnlyOnDuplicate ==
    last.op \in {"generate", "newDungeon"} =>
        LET layoutIndex == last.d.layout
            nodeIds == [k \in 1..6 |-> generateId(last.d.ids[k])]
        IN  /\ last.err # "none" =>
                   /\ last.err = "Duplicate edge"
                   /\ layoutIndex \in 0..(Len(LAYOUTS) - 1)
                   /\ duplicateEdge(LAYOUTS[layoutIndex + 1], nodeIds)
            /\ layoutIndex \in 0..(Len(LAYOUTS) - 1) => last.err = "none"

---------------------------------------------------------------------------
(* The upgrade to "special".                                               *)

\* The positions that hold t.
holders(types, t) == {k \in 1..Len(types) : types[k] = t}

\* The room types of a graph in position order.
typesOf(g) == [k \in 1..Len(g.nodes) |-> g.nodes[k].roomType]

\* C21: the upgrade to "special" is not positionally biased: when the
\* upgrade happens, exactly one of the three positions holding "empty"
\* after the shuffle is upgraded, and each of those three positions can be
\* the upgraded one: for each of them some outcome of the draws of the
\* upgrade makes it "special".
C21_UpgradeUnbiased ==
    (last.op = "newDungeon" /\ last.err = "none") =>
        LET shuffledTypes == shuffle(ROOM_TYPES, last.d.js)
            empties == holders(shuffledTypes, "empty")
            upgraded == holders(typesOf(graphData), "special")
        IN  /\ Cardinality(empties) = 3
            /\ upgraded \subseteq empties
            /\ last.d.special = 0 => Cardinality(upgraded) = 1
            /\ \A p \in empties :
                   \E special \in 0..2 :
                       upgradeTypes(shuffledTypes, special = 0)[p] = "special"

\* The upgrade, whenever it happens, takes the first "empty" in position
\* order: the "special" room never comes after an "empty" room.
SpecialNeverAfterEmpty ==
    Generated =>
        \A p \in holders(typesOf(graphData), "special"),
           q \in holders(typesOf(graphData), "empty") : p < q

---------------------------------------------------------------------------
(* The spliced graph.                                                      *)

\* The connections of g that name a clue room.
withClue(g) ==
    {k \in 1..Len(g.links) : g.links[k].clueRoomId \notin {Undefined, ""}}

\* C22: when a clue room is only ever set to one of the two endpoints of
\* its connection, every connection that names a clue room names a room of
\* the graph that is one of its endpoints, also after explode/replace of
\* the clue room.  (The connection editor offers the clue room on a
\* connection shown as secret, among the rooms at its two ends; graphs
\* with a connection to a stranger are left aside.)
C22_ClueRoomIsEndpoint ==
    WellFormed(graphData) =>
        \A k \in withClue(graphData) :
            /\ graphData.links[k].clueRoomId \in nodeIdsOf(graphData)
            /\ graphData.links[k].clueRoomId \in pairOf(graphData.links[k])

\* Every room of g is joined to the first room of g.
OnePiece(g) ==
    Len(g.nodes) > 0 => nodeIdsOf(g) \subseteq reachFrom(g, {firstRoom(g)})

\* C23: the graph stays connected under the handlers: every room is joined
\* to every other room by a path of connections, and when every endpoint
\* of a connection is a room (as it is when the handlers are called with
\* rooms of the graph) and some room is an entrance, the depth labelling of
\* the tree layout returns and gives every room a depth.
C23_StaysConnected ==
    /\ OnePiece(graphData)
    /\ (WellFormed(graphData) /\ entranceIds(graphData) # <<>>) =>
           /\ treeDepths(graphData).err = "none"
           /\ DOMAIN treeDepths(graphData).depths = nodeIdsOf(graphData)

\* An attach to the last room gave a graph of twelve rooms, all of them
\* labelled from its two entrances, the farthest at depth four or more.
C23_Witness ==
    /\ last.op = "attach" /\ last.err = "none"
    /\ last.a = lastRoom(prev)
    /\ Len(graphData.nodes) = 12
    /\ Cardinality(nodeIdsOf(graphData)) = 12
    /\ Len(entranceIds(graphData)) = 2
    /\ OnePiece(graphData)
    /\ DOMAIN treeDepths(graphData).depths = nodeIdsOf(graphData)
    /\ \E id \in nodeIdsOf(graphData) : treeDepths(graphData).depths[id] >= 4

\* C24: for every graph and every nodeId, the bridgeNodeId that
\* explode/replace returns is the identifier of a room of the graph it
\* returns.
C24_BridgeIsARoom ==
    (last.op = "replace" /\ last.err = "none") =>
        last.bridgeNodeId \in nodeIdsOf(graphData)

\* The identifiers of the rooms of g flagged as entrances.
entranceRooms(g) == Range(entranceIds(g))

\* C25: a splice does not change which rooms are entrances: after attach
\* the entrance-flagged rooms are those of before; after explode/replace of
\* a room R they are those of before with R replaced by the bridge room
\* when R was an entrance, and those of before otherwise; the number of
\* entrance-flagged rooms is the same before and after.
C25_SpliceKeepsEntrances ==
    /\ (Attached /\ last.err = "none") =>
           /\ entranceRooms(graphData) = entranceRooms(prev)
           /\ Len(entranceIds(graphData)) = Len(entranceIds(prev))
    /\ (Replaced /\ last.err = "none") =>
           LET R == last.a
               bridge == last.bridgeNodeId
           IN  /\ entranceRooms(graphData)
                     = IF findNode(prev, R).entrance
                       THEN (entranceRooms(prev) \ {R}) \cup {bridge}
                       ELSE entranceRooms(prev)
               /\ Len(entranceIds(graphData)) = Len(entranceIds(prev))

---------------------------------------------------------------------------
(* The tree layout.                                                        *)

\* The identifiers one directed link of L away from a member of S.
heads(L, S) == {L[k].target : k \in {m \in 1..Len(L) : L[m].source \in S}}

RECURSIVE downFrom(_, _)
downFrom(L, S) ==
    LET N == S \cup heads(L, S)
    IN  IF N = S THEN S ELSE downFrom(L, N)

\* Some room is reached from itself along one or more directed links of L.
DirectedCycle(L) ==
    \E k \in 1..Len(L) : L[k].source \in downFrom(L, {L[k].target})

\* The links of the tree layout of g are the connections of g, each
\* directed by depth and then by identifier, and hold no directed cycle.
TreeLinksFaithful(g) ==
    treeLinks(g).err = "none" =>
        LET L == treeLinks(g).links
            depths == treeDepths(g).depths
            d(id) == depthOr0(depths, id)
        IN  /\ Len(L) = Len(g.links)
            /\ \A k \in 1..Len(L) :
                   /\ pairOf(L[k]) = pairOf(g.links[k])
                   /\ L[k].connectionType = g.links[k].connectionType
                   /\ L[k].clueRoomId = g.links[k].clueRoomId
                   /\ \/ d(L[k].source) < d(L[k].target)
                      \/ /\ d(L[k].source) = d(L[k].target)
                         /\ Rank(L[k].source) <= Rank(L[k].target)
            /\ ~DirectedCycle(L)

\* C26: in tree layout the links handed to the renderer are the graph's
\* connections, one for one, with the same unordered pair, category and
\* clue room, each directed from the endpoint of smaller depth to the one
\* of larger depth and at equal depth from the smaller identifier to the
\* larger, and no room is reached from itself along the directed links.
C26_TreeLinksAcyclic == TreeLinksFaithful(graphData)

---------------------------------------------------------------------------
(* The editor: the clicks of DungeonGraph.tsx and RoomEditor.tsx, and the  *)
(* handlers of App.tsx called as the rendered controls call them.          *)

\* The first render chooses among these draws.
EditorInitDraws ==
    Draws({0}, {IdTape(1)}, {SampleShuffle}, {0}, {0}, {3}, {SampleRolls})

\* The generator draws of the editor: six fresh identifiers, or a repeated
\* identifier that makes the generator throw.
EditorDraws ==
    Draws({0}, {IdTape(2), LoopTape}, {SampleShuffle}, {0}, {0}, {3},
          {SampleRolls})

InitEditor == InitWith(EditorInitDraws)

\* The component tree is rendered: the analysis of the force layout or
\* that of the tree layout returns.
Rendered ==
    \/ treeDepths(graphData).err = "none"
    \/ bridgeLinkKeys(graphData).err = "none"

\* The rooms the clicks of the model go to.
ClickRooms(g) == {firstRoom(g), lastRoom(g)}

\* The links handed to the renderer, in the force and in the tree layout.
renderedLinks(g) ==
    {g.links} \cup
        (IF treeLinks(g).err = "none" THEN {treeLinks(g).links} ELSE {})

frame == <<graphData, prev, last, removed, nOps>>

onNodeClick ==
    /\ Rendered
    /\ \E id \in ClickRooms(graphData) :
        /\ selectedNodeId' = IF selectedNodeId = id THEN Null ELSE id
        /\ selectedEdge' = NoEdge
    /\ UNCHANGED <<frame, form>>

\* A click on the first link of the graph.
onLinkClick ==
    /\ Rendered
    /\ Len(graphData.links) > 0
    /\ \E L \in renderedLinks(graphData) :
        /\ selectedEdge' = [source |-> L[1].source, target |-> L[1].target]
        /\ selectedNodeId' = Null
    /\ UNCHANGED <<frame, form>>

onBackgroundClick ==
    /\ Rendered
    /\ selectedNodeId' = Null
    /\ selectedEdge' = NoEdge
    /\ UNCHANGED <<frame, form>>

\* A click on a room of the room list: onSelectNode(node.id).
SelectInList ==
    /\ Rendered
    /\ \E id \in ClickRooms(graphData) : selectedNodeId' = id
    /\ UNCHANGED <<frame, selectedEdge, form>>

\* The Close button of the connection editor.
onClose ==
    /\ Rendered
    /\ selectedEdge # NoEdge
    /\ selectedEdge' = NoEdge
    /\ UNCHANGED <<frame, selectedNodeId, form>>

\* selectedNode of RoomEditor is found: the room detail is rendered.
RoomDetail == Rendered /\ hasNode(graphData, selectedNodeId)

\* The name, the entrance box and the content of the selected room.
EditRoom ==
    /\ RoomDetail
    /\ nOps < MaxOps
    /\ \E updates \in NodeUpdates : handleUpdateNode(selectedNodeId, updates)
    /\ UNCHANGED form

\* The controls of the connection editor.
EditConnection ==
    /\ Rendered
    /\ selectedEdge # NoEdge
    /\ nOps < MaxOps
    /\ \E updates \in EdgeUpdates(graphData, selectedEdge.source,
                                  selectedEdge.target) :
        handleUpdateEdge(selectedEdge.source, selectedEdge.target, updates)
    /\ UNCHANGED form

ClickAttach ==
    /\ RoomDetail
    /\ nOps < MaxOps
    /\ Len(graphData.nodes) <= MaxRooms
    /\ \E d \in EditorDraws, roll \in CorridorRolls :
        handleAttachDungeon(selectedNodeId, d, roll)
    /\ UNCHANGED form

ClickExplode ==
    /\ RoomDetail
    /\ nOps < MaxOps
    /\ Len(graphData.nodes) <= MaxRooms
    /\ \E d \in EditorDraws : handleReplaceWithDungeon(selectedNodeId, d)
    /\ UNCHANGED form

ClickNewDungeon ==
    /\ Rendered
    /\ nOps < MaxOps
    /\ NewDungeonWith(EditorDraws)
    /\ UNCHANGED form

\* The two room selects of the add-connection form: the first option or
\* the first room in "From room", the first option or the last room in
\* "To room".
setAddEdgeSource ==
    /\ Rendered
    /\ \E id \in {"", firstRoom(graphData)} : addEdgeSource' = id
    /\ UNCHANGED <<frame, selection, addEdgeTarget>>

setAddEdgeTarget ==
    /\ Rendered
    /\ \E id \in {"", lastRoom(graphData)} : addEdgeTarget' = id
    /\ UNCHANGED <<frame, selection, addEdgeSource>>

\* The Add button: disabled unless the form names two different rooms.
handleSubmitAddEdge ==
    /\ Rendered
    /\ nOps < MaxOps
    /\ addEdgeSource # "" /\ addEdgeTarget # ""
    /\ addEdgeSource # addEdgeTarget
    /\ \E connectionType \in {"closed"} :
        handleAddEdge(addEdgeSource, addEdgeTarget, connectionType)
    /\ addEdgeSource' = ""
    /\ addEdgeTarget' = ""

NextEditor ==
    \/ onNodeClick
    \/ onLinkClick
    \/ onBackgroundClick
    \/ SelectInList
    \/ onClose
    \/ EditRoom
    \/ EditConnection
    \/ ClickAttach
    \/ ClickExplode
    \/ ClickNewDungeon
    \/ setAddEdgeSource
    \/ setAddEdgeTarget
    \/ handleSubmitAddEdge

SpecEditor == InitEditor /\ [][NextEditor]_vars

\* Some connection of g joins the rooms a and b.
joined(g, a, b) ==
    \E k \in 1..Len(g.links) : pairOf(g.links[k]) = {a, b}

\* C27: the selection of the editor stays valid under the user's actions:
\* the selected room, when there is one, is a room of the graph, and the
\* selected connection, when there is one, names two rooms of the graph
\* that a connection of the graph joins.
C27_SelectionValid ==
    /\ selectedNodeId # Null => selectedNodeId \in nodeIdsOf(graphData)
    /\ selectedEdge # NoEdge =>
           /\ selectedEdge.source \in nodeIdsOf(graphData)
           /\ selectedEdge.target \in nodeIdsOf(graphData)
           /\ joined(graphData, selectedEdge.source, selectedEdge.target)

---------------------------------------------------------------------------
(* The handlers when chance is kind.                                       *)
(*                                                                         *)
(* C1, C4, C6, C9 and C10 are violated under Spec and SpecGen only in      *)
(* behaviours where generateId repeats an identifier (C5) or addEdge is    *)
(* given an identifier that is no room (C3).  The two specifications       *)
(* below leave those calls out; under them C1, C3, C4, C5, C9, C10 and C6  *)
(* are invariants.  They measure how far the violations reach and settle   *)
(* no claim.                                                               *)

\* The call just made minted six identifiers never seen before, and gave
\* addEdge two rooms of the graph.
KindCall ==
    /\ Minting => /\ Cardinality(minted) = 6
                  /\ minted \cap nodeIdsOf(prev) = {}
                  /\ minted \cap removed = {}
    /\ last.op = "addEdge" => {last.a, last.b} \subseteq nodeIdsOf(prev)

SpecKind == Init /\ KindCall /\ [][Next /\ KindCall']_vars

SpecGenKind == Init /\ KindCall /\ [][GenerateOnce /\ KindCall']_vars

HandlersWhenKind ==
    /\ C1_ReplaceKeepsExternalEdges
    /\ C3_EndpointsAreRooms
    /\ C4_NoParallelNoSelfLoop
    /\ C5_UniqueIds
    /\ C9_AttachFrame
    /\ C10_BridgeInherits
    /\ C25_SpliceKeepsEntrances
    /\ C26_TreeLinksAcyclic

\* The keys of the connections of g tell their endpoint pairs apart.
KeysTellPairsApart(g) ==
    \A i, j \in 1..Len(g.links) :
        keyOf(g.links[i]) = keyOf(g.links[j])
            => pairOf(g.links[i]) = pairOf(g.links[j])

\* C12, C13 and C15 are violated under SpecLib only where two endpoint
\* pairs have one key (C13): on the other graphs they are invariants of
\* SpecLib.
FunctionsWhenKind ==
    (/\ KeysTellPairsApart(graphData)
     /\ last.op = "updateEdge" =>
            \A k \in 1..Len(prev.links) :
                keyOf(prev.links[k]) = norm(last.a, last.b)
                    => pairOf(prev.links[k]) = {last.a, last.b})
        => /\ C12_InvalidReferenceNoOp
           /\ C13_UpdateEdgeByPair
           /\ C15_BridgesAreCutEdges

\* C26 is violated only on a graph that joins a room to itself or a pair
\* of rooms twice: on the other graphs whose connection endpoints are rooms
\* it is an invariant of Spec and of SpecLib.
TreeLinksWhenSimple ==
    (WellFormed(graphData) /\ NoParallel(graphData) /\ NoSelfLoop(graphData))
        => TreeLinksFaithful(graphData)

====
